---- MODULE Spec2Model ----
(***************************************************************************)
(* A model of src/src/birdnet_batch.py: the batch dispatcher               *)
(* (analyze_batch_to_csv, analyze_batch_with_progress), the per-file       *)
(* adapter/writer (analyze_one_to_csv) and the merge compiler              *)
(* (compile_master_csv).                                                   *)
(*                                                                         *)
(* Text is modelled character by character: a cell of a CSV row is a       *)
(* sequence of one-character strings, a row is a sequence of cells, and a  *)
(* CSV file is the sequence of rows that csv.writer stored in it.  A path  *)
(* below the output directory is <<folder, name>>; folder "" is the        *)
(* output directory itself.                                                *)
(***************************************************************************)
EXTENDS Integers, Sequences, FiniteSets, TLC

VARIABLES
    fs,         \* the files of the output directory: path -> [exists, rows]
    dirs,       \* the folders of the output directory
    files,      \* the dispatcher's input list (list(files), line 61 / 108)
    fails,      \* the files for which the Detector raises
    entry,      \* "to_csv" (analyze_batch_to_csv) or "progress" (analyze_batch_with_progress)
    workers,    \* the workers argument
    pc,         \* the dispatcher call: "running", "returned", "raised", or "merge" (no call)
    nextTask,   \* index of the next file handed out (input order)
    proc,       \* per process: [task, phase], phase in idle/analyzing/opened
    outq,       \* results sent back by pool workers, in completion order
    out,        \* the list the dispatcher builds and returns
    events,     \* the completed-counts the progress bar has shown (tqdm's n)
    done,       \* history: indices whose analyze_one_to_csv call returned
    raisedBy,   \* what the dispatcher raised: 0 none, i > 0 file i's error, -1 pickling error, -2 interrupt
    master,     \* name given to the last compile_master_csv call (<<>> before the first)
    prevName,   \* history: name given to the compile_master_csv call before the last
    prevRows,   \* history: rows at the last call's master path before that call
    compiles,   \* number of compile_master_csv calls so far
    mergeError, \* whether the last compile_master_csv call raised
    stale,      \* whether an earlier run's output lay in the output directory
    finder      \* find_audio_files: the directory tree searched and the result

vars == <<fs, dirs, files, fails, entry, workers, pc, nextTask, proc, outq, out,
          events, done, raisedBy, master, prevName, prevRows, compiles,
          mergeError, stale, finder>>

dispatchVars == <<dirs, files, fails, entry, workers, pc, nextTask, proc, outq, out,
                  events, done, raisedBy, stale, finder>>

----------------------------------------------------------------------------
(* Bounds of the model *)

MaxRows == 2        \* rows of a pre-existing per-file output (merge model)
MaxCompiles == 2    \* compile_master_csv calls in one behaviour
MaxFiles == 2       \* length of the dispatcher's file list
MaxWorkers == 2     \* largest workers argument

----------------------------------------------------------------------------
(* Characters and cells *)

\* str.lower() on the characters the model uses
LowerChar(c) ==
    CASE c = "F" -> "f"
      [] c = "S" -> "s"
      [] c = "W" -> "w"
      [] c = "A" -> "a"
      [] c = "V" -> "v"
      [] OTHER -> c

lower(cell) == [i \in 1..Len(cell) |-> LowerChar(cell[i])]

IsSpace(c) == c \in {" ", "\t", "\n", "\r"}

RECURSIVE lstrip(_)
lstrip(cell) ==
    IF cell # <<>> /\ IsSpace(Head(cell)) THEN lstrip(Tail(cell)) ELSE cell

RECURSIVE rstrip(_)
rstrip(cell) ==
    IF cell # <<>> /\ IsSpace(cell[Len(cell)])
    THEN rstrip(SubSeq(cell, 1, Len(cell) - 1))
    ELSE cell

\* str.strip()
strip(cell) == rstrip(lstrip(cell))

\* CSV_HEADER = ["file", "start_s", "end_s", "label", "confidence"]
CSV_HEADER ==
    << <<"f","i","l","e">>,
       <<"s","t","a","r","t","_","s">>,
       <<"e","n","d","_","s">>,
       <<"l","a","b","e","l">>,
       <<"c","o","n","f","i","d","e","n","c","e">> >>


\* The first row dropped by the merge: compared cell by cell after strip() and
\* lower() (line 88)
IsHeaderRow(first) ==
    [i \in 1..Len(first) |-> lower(strip(first[i]))]
        = [i \in 1..Len(CSV_HEADER) |-> lower(CSV_HEADER[i])]

\* Reading in text mode without newline="" (line 82) translates "\r\n" and
\* "\r" inside a quoted cell to "\n" before csv.reader sees them
RECURSIVE universal_newlines(_)
universal_newlines(cell) ==
    IF cell = <<>> THEN <<>>
    ELSE IF Head(cell) = "\r"
         THEN IF Len(cell) >= 2 /\ cell[2] = "\n"
              THEN <<"\n">> \o universal_newlines(Tail(Tail(cell)))
              ELSE <<"\n">> \o universal_newlines(Tail(cell))
         ELSE <<Head(cell)>> \o universal_newlines(Tail(cell))

\* csv.reader over a file opened with p.open("r"): the stored rows, each cell
\* after newline translation
csv_reader(rows) ==
    [i \in 1..Len(rows) |->
        [j \in 1..Len(rows[i]) |-> universal_newlines(rows[i][j])]]

----------------------------------------------------------------------------
(* Paths below the output directory *)

CsvSuffix == <<".","c","s","v">>

MasterDefault ==
    <<"m","a","s","t","e","r","_","r","e","s","u","l","t","s",".","c","s","v">>

MasterAlt == <<"m",".","c","s","v">>

MasterNames == {MasterDefault, MasterAlt}

PathA == <<"A", <<"a",".","c","s","v">> >>
PathB == <<"B", <<"b",".","c","s","v">> >>
PathBm == <<"B", MasterAlt>>

\* The order in which rglob yields the entries of the output directory: the
\* directory's own entries first, then each folder's
PathOrder ==
    << <<"", MasterDefault>>, <<"", MasterAlt>>, PathA, PathB, PathBm >>

AllPaths == {PathOrder[i] : i \in 1..Len(PathOrder)}

NoFile == [exists |-> FALSE, rows |-> <<>>, readable |-> FALSE]

File(rows) == [exists |-> TRUE, rows |-> rows, readable |-> TRUE]

\* An entry named *.csv that p.open("r") or the first read fails on (no
\* permission, a directory, bytes that are not UTF-8)
Unreadable == [exists |-> TRUE, rows |-> <<>>, readable |-> FALSE]

\* fnmatch of "*.csv" against a name
MatchesCsv(name) ==
    /\ Len(name) >= Len(CsvSuffix)
    /\ SubSeq(name, Len(name) - Len(CsvSuffix) + 1, Len(name)) = CsvSuffix

----------------------------------------------------------------------------
(* compile_master_csv *)

RECURSIVE Flatten(_)
Flatten(seqs) ==
    IF seqs = <<>> THEN <<>> ELSE Head(seqs) \o Flatten(Tail(seqs))

\* Line 76 with every name kept: the master file is read like any other
DiscoverAll(dir, master_name) ==
    SelectSeq(PathOrder, LAMBDA p : dir[p].exists /\ MatchesCsv(p[2]))

\* Line 76: csvs = [p for p in out_dir.rglob("*.csv") if p.name != master_name]
Discover(dir, master_name) ==
    SelectSeq(PathOrder,
              LAMBDA p : dir[p].exists /\ MatchesCsv(p[2]) /\ p[2] # master_name)

\* Lines 88-89 comparing the raw cells with the header
FirstRowsExact(first) == IF first = CSV_HEADER THEN <<>> ELSE <<first>>

\* Lines 88-89: the first row is written unless it is a header row
FirstRows(first) == IF IsHeaderRow(first) THEN <<>> ELSE <<first>>

\* Lines 90-92 without the test of line 91: empty rows are written too
RestRowsAll(rest) == rest

\* Lines 90-92: the remaining rows, empty ones skipped
RestRows(rest) == SelectSeq(rest, LAMBDA row : row # <<>>)

\* Lines 82-92: what one per-file output adds to the master
Contribution(stored) ==
    LET rows == csv_reader(stored)
    IN  IF rows = <<>> THEN <<>>
        ELSE FirstRows(Head(rows)) \o RestRows(Tail(rows))

\* Lines 81-85: the loop ends at the first output that cannot be read; the
\* exception of p.open / next(reader) is not caught (only StopIteration is)
StopsAt(dir, csvs) ==
    IF \E i \in 1..Len(csvs) : ~dir[csvs[i]].readable
    THEN CHOOSE i \in 1..Len(csvs) :
            /\ ~dir[csvs[i]].readable
            /\ \A j \in 1..(i - 1) : dir[csvs[j]].readable
    ELSE Len(csvs) + 1

\* Whether the call raises instead of returning master (line 93)
MergeRaises(dir, master_name) ==
    LET csvs == Discover(dir, master_name)
    IN  StopsAt(dir, csvs) <= Len(csvs)

\* Lines 78-92: the rows written to the master file, which the with block of
\* line 78 closes also when the loop is left by an exception
MasterRows(dir, master_name) ==
    LET csvs == Discover(dir, master_name)
    IN  <<CSV_HEADER>>
          \o Flatten([i \in 1..(StopsAt(dir, csvs) - 1) |->
                         Contribution(dir[csvs[i]].rows)])

MasterPath(master_name) == <<"", master_name>>

\* compile_master_csv(out_dir, master_name), lines 73-93
Compile(master_name) ==
    /\ pc \in {"merge", "returned", "raised"}
    /\ compiles < MaxCompiles
    /\ fs' = [fs EXCEPT ![MasterPath(master_name)] = File(MasterRows(fs, master_name))]
    /\ master' = master_name
    /\ prevName' = master
    /\ prevRows' = fs[MasterPath(master_name)].rows
    /\ compiles' = compiles + 1
    /\ mergeError' = MergeRaises(fs, master_name)
    /\ UNCHANGED dispatchVars

----------------------------------------------------------------------------
(* Audio files and the Detector *)

Wav == <<".","w","a","v">>
Flac == <<".","f","l","a","c">>

\* An audio file: its parent folder's name, its stem and its suffix
FileA1 == [parent |-> "A", stem |-> <<"a">>, suffix |-> Wav]
FileA2 == [parent |-> "A", stem |-> <<"a">>, suffix |-> Flac]
FileB  == [parent |-> "B", stem |-> <<"b">>, suffix |-> Wav]
FileBm == [parent |-> "B", stem |-> <<"m">>, suffix |-> Wav]

AudioFiles == {FileA1, FileA2, FileB, FileBm}

\* rec.detections of a file the Detector can analyze (lines 40-42)
Detections(f) ==
    CASE f = FileA1 ->
           << [start_time |-> <<"0",".","0">>, end_time |-> <<"3",".","0">>,
               common_name |-> <<"S","f">>, confidence |-> 1500],
              [start_time |-> <<"3",".","0">>, end_time |-> <<"6",".","0">>,
               common_name |-> <<"f">>] >>
      [] f = FileA2 ->
           << [start_time |-> <<"0",".","0">>, end_time |-> <<"3",".","0">>,
               common_name |-> <<"s">>, confidence |-> 9999] >>
      [] f = FileBm ->
           << [start_time |-> <<"0",".","0">>, end_time |-> <<"3",".","0">>,
               common_name |-> <<"f">>, confidence |-> 2004] >>
      [] OTHER -> <<>>

Digit(n) ==
    CASE n = 0 -> "0" [] n = 1 -> "1" [] n = 2 -> "2" [] n = 3 -> "3"
      [] n = 4 -> "4" [] n = 5 -> "5" [] n = 6 -> "6" [] n = 7 -> "7"
      [] n = 8 -> "8" [] n = 9 -> "9"

\* f"{float(c):.3f}" of a confidence given in ten-thousandths (line 53)
Fmt3(c) ==
    LET t == (c + 5) \div 10
    IN  << Digit(t \div 1000), ".", Digit((t \div 100) % 10),
           Digit((t \div 10) % 10), Digit(t % 10) >>

\* Lines 48-54: the row of one detection
Record(f, d) ==
    << f.stem \o f.suffix, d.start_time, d.end_time, d.common_name,
       Fmt3(IF "confidence" \in DOMAIN d THEN d.confidence ELSE 0) >>

\* Lines 46-54: the rows analyze_one_to_csv writes for a file
PerFileRows(f) ==
    <<CSV_HEADER>>
      \o [i \in 1..Len(Detections(f)) |-> Record(f, Detections(f)[i])]

\* Lines 36-38: out_dir / file_path.parent.name / f"{file_path.stem}.csv"
OutCsv(f) == <<f.parent, f.stem \o CsvSuffix>>

\* Writing n rows from the start of a file that holds old
Overlay(old, new) ==
    IF Len(old) > Len(new) THEN new \o SubSeq(old, Len(new) + 1, Len(old)) ELSE new

----------------------------------------------------------------------------
(* find_audio_files *)

Mp3 == <<".","m","p","3">>
Ogg == <<".","o","g","g">>
M4a == <<".","m","4","a">>

AUDIO_EXTS == {Wav, Flac, Mp3, Ogg, M4a}

\* A path below base is the sequence of its names; <<>> is base itself
Front(path) == SubSeq(path, 1, Len(path) - 1)

Last(path) == path[Len(path)]

Dir(path) == [path |-> path, kind |-> "dir", target |-> <<>>]
Plain(path) == [path |-> path, kind |-> "file", target |-> <<>>]
Link(path, target) == [path |-> path, kind |-> "link", target |-> target]

NameA == <<"A">>
NameB == <<"B">>
NameS == <<"S">>
NameL == <<"L">>
NameAudio == <<"a",".","w","a","v">>
NameUpper == <<"c",".","W","A","V">>
NameText == <<"n",".","t","x","t">>
NameFolderWav == <<"d",".","w","a","v">>
NameLink == <<"l",".","w","a","v">>

\* The entries a directory tree below base can hold, in the order in which
\* a directory scan yields those of one directory
EntryOrder ==
    << Link(<<NameL>>, <<NameA>>),
       Dir(<<NameB>>),
       Dir(<<NameA>>),
       Link(<<NameB, NameLink>>, <<NameA, NameAudio>>),
       Dir(<<NameA, NameS>>),
       Plain(<<NameA, NameAudio>>),
       Plain(<<NameA, NameText>>),
       Dir(<<NameA, NameFolderWav>>),
       Plain(<<NameA, NameS, NameUpper>>) >>

Entries == {EntryOrder[i] : i \in 1..Len(EntryOrder)}

\* The trees: every entry lies in a directory of the tree
Trees ==
    {t \in SUBSET Entries :
        \A e \in t : Len(e.path) > 1 => Dir(Front(e.path)) \in t}

NoPattern == <<>>
Star == <<"*">>
Patterns == {NoPattern, Star, NameA, NameS, NameL, <<"Z">>}

\* The entry of tree t at a path without symbolic links in it
At(t, path) == CHOOSE e \in t : e.path = path

Has(t, path) == \E e \in t : e.path = path

\* The path with its symbolic links followed
RECURSIVE Canonical(_, _)
Canonical(t, path) ==
    IF path = <<>> THEN <<>>
    ELSE LET real == Canonical(t, Front(path)) \o <<Last(path)>>
         IN  IF Has(t, real) /\ At(t, real).kind = "link"
             THEN Canonical(t, At(t, real).target)
             ELSE real

\* Path.is_dir() and Path.is_file() follow symbolic links
is_dir(t, path) ==
    LET real == Canonical(t, path)
    IN  real = <<>> \/ (Has(t, real) /\ At(t, real).kind = "dir")

is_file(t, path) ==
    LET real == Canonical(t, path)
    IN  Has(t, real) /\ At(t, real).kind = "file"

\* Path.suffix: the name from its last dot on, if that dot is neither the
\* first nor the last character
suffix(name) ==
    LET dots == {i \in 2..(Len(name) - 1) : name[i] = "."}
    IN  IF dots = {} THEN <<>>
        ELSE SubSeq(name, CHOOSE i \in dots : \A j \in dots : j <= i, Len(name))

\* The entries of the directory reached by path, as paths below path
iterdir(t, path) ==
    LET real == Canonical(t, path)
        here == SelectSeq(EntryOrder,
                          LAMBDA e : e \in t /\ Front(e.path) = real)
    IN  [i \in 1..Len(here) |-> path \o <<Last(here[i].path)>>]

\* The directories rglob visits from root: root, then depth first each
\* directory below that is not a symbolic link
RECURSIVE Walk(_, _)
Walk(t, root) ==
    LET subs == SelectSeq(iterdir(t, root),
                          LAMBDA p : LET real == Canonical(t, Front(p)) \o <<Last(p)>>
                                     IN  Has(t, real) /\ At(t, real).kind = "dir")
    IN  <<root>> \o Flatten([i \in 1..Len(subs) |-> Walk(t, subs[i])])

Matches(pattern, name) == pattern = Star \/ pattern = name

\* root.rglob(pattern)
rglob(t, root, pattern) ==
    LET visited == Walk(t, root)
    IN  Flatten([i \in 1..Len(visited) |->
                    SelectSeq(iterdir(t, visited[i]),
                              LAMBDA p : Matches(pattern, Last(p)))])

\* Lines 15-17: the search roots
Roots(t, pattern) ==
    LET found == IF pattern # NoPattern
                 THEN SelectSeq(rglob(t, <<>>, pattern), LAMBDA d : is_dir(t, d))
                 ELSE <<>>
    IN  IF found = <<>> THEN << <<>> >> ELSE found

\* Lines 18-22: the audio files of all roots, root after root
Candidates(t, pattern) ==
    LET roots == Roots(t, pattern)
    IN  Flatten([i \in 1..Len(roots) |->
                    SelectSeq(rglob(t, roots[i], Star),
                              LAMBDA p : /\ is_file(t, p)
                                         /\ lower(suffix(Last(p))) \in AUDIO_EXTS)])

\* Lines 23-26: a path is kept where it first occurs
RECURSIVE Dedup(_)
Dedup(seq) ==
    IF seq = <<>> THEN <<>>
    ELSE LET before == Dedup(Front(seq))
         IN  IF \E i \in 1..Len(before) : before[i] = Last(seq)
             THEN before
             ELSE Append(before, Last(seq))

\* The state of find_audio_files before and after the call
NoSearch == [called |-> FALSE]

Search(t, there, pattern) ==
    [called |-> FALSE, tree |-> t, exists |-> there, pattern |-> pattern,
     result |-> <<>>]

\* Lines 10-27
find_audio_files ==
    /\ pc = "find"
    /\ ~finder.called
    /\ finder' =
          [finder EXCEPT
             !.called = TRUE,
             !.result = IF ~finder.exists THEN <<>>
                        ELSE Dedup(Candidates(finder.tree, finder.pattern))]
    /\ UNCHANGED <<fs, dirs, files, fails, entry, workers, pc, nextTask, proc,
                   outq, out, events, done, raisedBy, master, prevName,
                   prevRows, compiles, mergeError, stale>>

----------------------------------------------------------------------------
(* The dispatcher: analyze_batch_to_csv and analyze_batch_with_progress *)

Range(seq) == {seq[i] : i \in 1..Len(seq)}

DistinctSeqs(S, n) ==
    {q \in UNION {[1..k -> S] : k \in 0..n} :
        \A i, j \in 1..Len(q) : i # j => q[i] # q[j]}

\* Process 0 is the caller (workers <= 1); 1..workers are the pool's workers
Procs == IF workers <= 1 THEN {0} ELSE 1..workers

Idle == [task |-> 0, phase |-> "idle"]

\* analyze_batch_to_csv hands the pool a local function (lines 64-71), which
\* cannot be pickled: no task reaches a worker
PickleFails == entry = "to_csv" /\ workers > 1

CurrentFile(w) == files[proc[w].task]

\* The list comprehension / out.append growing the result (lines 69, 115, 123)
CollectFront(o, loc) == <<loc>> \o o

Collect(o, loc) == Append(o, loc)

\* tqdm counts one finished iteration (lines 114, 121)
Progress(ev) == IF entry = "progress" THEN Append(ev, Len(ev) + 1) ELSE ev

\* The output an earlier run left at A/a.csv: that of a/a.flac
StaleOutput == File(PerFileRows(FileA2))

\* As Start, with the output opened for writing before the Detector runs
StartOpensFirst(w) ==
    /\ pc = "running"
    /\ ~PickleFails
    /\ proc[w].phase = "idle"
    /\ nextTask <= Len(files)
    /\ proc' = [proc EXCEPT ![w] = [task |-> nextTask, phase |-> "analyzing"]]
    /\ nextTask' = nextTask + 1
    /\ dirs' = dirs \cup {files[nextTask].parent}
    /\ fs' = [fs EXCEPT ![OutCsv(files[nextTask])] = File(<<>>)]
    /\ UNCHANGED <<files, fails, mergeError, stale, finder, entry, workers, pc,
                   outq, out, events, done, raisedBy, master, prevName,
                   prevRows, compiles>>

\* A process takes the next file in input order and creates the folder
\* (lines 34-38)
Start(w) ==
    /\ pc = "running"
    /\ ~PickleFails
    /\ proc[w].phase = "idle"
    /\ nextTask <= Len(files)
    /\ proc' = [proc EXCEPT ![w] = [task |-> nextTask, phase |-> "analyzing"]]
    /\ nextTask' = nextTask + 1
    /\ dirs' = dirs \cup {files[nextTask].parent}
    /\ UNCHANGED <<fs, files, fails, mergeError, stale, finder, entry, workers, pc, outq, out, events,
                   done, raisedBy, master, prevName, prevRows, compiles>>

\* rec.analyze() returns and the output is opened for writing (lines 42-44)
DetectorReturns(w) ==
    /\ pc = "running"
    /\ proc[w].phase = "analyzing"
    /\ CurrentFile(w) \notin fails
    /\ fs' = [fs EXCEPT ![OutCsv(CurrentFile(w))] = File(<<>>)]
    /\ proc' = [proc EXCEPT ![w].phase = "opened"]
    /\ UNCHANGED <<dirs, files, fails, mergeError, stale, finder, entry, workers, pc, nextTask, outq, out,
                   events, done, raisedBy, master, prevName, prevRows, compiles>>

\* rec.analyze() raises in the caller's own process: the exception leaves the
\* dispatcher (lines 69, 115)
DetectorRaisesSerial ==
    /\ pc = "running"
    /\ workers <= 1
    /\ proc[0].phase = "analyzing"
    /\ CurrentFile(0) \in fails
    /\ pc' = "raised"
    /\ raisedBy' = proc[0].task
    /\ proc' = [proc EXCEPT ![0].phase = "failed"]
    /\ UNCHANGED <<fs, dirs, files, fails, mergeError, stale, finder, entry, workers, nextTask, outq, out,
                   events, done, master, prevName, prevRows, compiles>>

\* rec.analyze() raises in a pool worker: the worker sends the exception back
\* and is free for the next task
DetectorRaisesPool(w) ==
    /\ pc = "running"
    /\ workers > 1
    /\ proc[w].phase = "analyzing"
    /\ CurrentFile(w) \in fails
    /\ outq' = Append(outq, [task |-> proc[w].task, ok |-> FALSE])
    /\ proc' = [proc EXCEPT ![w] = Idle]
    /\ UNCHANGED <<fs, dirs, files, fails, mergeError, stale, finder, entry, workers, pc, nextTask, out,
                   events, done, raisedBy, master, prevName, prevRows, compiles>>

\* The rows reach the file and it is closed (lines 45-55); in the caller's
\* process the location joins the result and the bar advances
WriteSerial ==
    /\ pc = "running"
    /\ workers <= 1
    /\ proc[0].phase = "opened"
    /\ LET loc == OutCsv(CurrentFile(0))
       IN  /\ fs' = [fs EXCEPT ![loc] =
                       File(Overlay(fs[loc].rows, PerFileRows(CurrentFile(0))))]
           /\ out' = Collect(out, loc)
    /\ events' = Progress(events)
    /\ done' = done \cup {proc[0].task}
    /\ proc' = [proc EXCEPT ![0] = Idle]
    /\ UNCHANGED <<dirs, files, fails, mergeError, stale, finder, entry, workers, pc, nextTask, outq,
                   raisedBy, master, prevName, prevRows, compiles>>

\* The same in a pool worker, which sends the location back
WritePool(w) ==
    /\ pc = "running"
    /\ workers > 1
    /\ proc[w].phase = "opened"
    /\ LET loc == OutCsv(CurrentFile(w))
       IN  fs' = [fs EXCEPT ![loc] =
                    File(Overlay(fs[loc].rows, PerFileRows(CurrentFile(w))))]
    /\ outq' = Append(outq, [task |-> proc[w].task, ok |-> TRUE])
    /\ done' = done \cup {proc[w].task}
    /\ proc' = [proc EXCEPT ![w] = Idle]
    /\ UNCHANGED <<dirs, files, fails, mergeError, stale, finder, entry, workers, pc, nextTask, out,
                   events, raisedBy, master, prevName, prevRows, compiles>>

\* imap_unordered yields a worker's location (lines 121-123)
ReceiveResult ==
    /\ pc = "running"
    /\ outq # <<>>
    /\ Head(outq).ok
    /\ out' = Collect(out, OutCsv(files[Head(outq).task]))
    /\ events' = Progress(events)
    /\ outq' = Tail(outq)
    /\ UNCHANGED <<fs, dirs, files, fails, mergeError, stale, finder, entry, workers, pc, nextTask, proc,
                   done, raisedBy, master, prevName, prevRows, compiles>>

Opened == {w \in Procs : proc[w].phase = "opened"}

\* The files left behind by processes stopped while writing: process w's file
\* holds the first k[w] rows it had got to the file
RECURSIVE StoppedWrites(_, _, _)
StoppedWrites(dir, w, k) ==
    IF w > MaxWorkers THEN dir
    ELSE IF w \in Opened
         THEN LET loc == OutCsv(CurrentFile(w))
                  rows == SubSeq(PerFileRows(CurrentFile(w)), 1, k[w])
              IN  StoppedWrites(
                      [dir EXCEPT ![loc] = File(Overlay(dir[loc].rows, rows))],
                      w + 1, k)
         ELSE StoppedWrites(dir, w + 1, k)

\* An exception leaves the dispatcher while processes are at work: Pool's
\* __exit__ terminates the workers (lines 70, 120); in the caller's process the
\* with block of line 44 closes the file
StopAll ==
    /\ \E k \in [Opened -> 0..(Len(PerFileRows(FileA1)))] :
          /\ \A w \in Opened : k[w] <= Len(PerFileRows(CurrentFile(w)))
          /\ fs' = StoppedWrites(fs, 0, k)
    /\ proc' = [w \in Procs |->
                  IF proc[w].phase = "idle" THEN proc[w]
                  ELSE [proc[w] EXCEPT !.phase = "stopped"]]

\* imap_unordered re-raises a worker's exception in the caller (line 121)
ReceiveError ==
    /\ pc = "running"
    /\ outq # <<>>
    /\ ~Head(outq).ok
    /\ pc' = "raised"
    /\ raisedBy' = Head(outq).task
    /\ outq' = Tail(outq)
    /\ StopAll
    /\ UNCHANGED <<dirs, files, fails, mergeError, stale, finder, entry, workers, nextTask, out, events,
                   done, master, prevName, prevRows, compiles>>

\* analyze_batch_to_csv with workers > 1: the first result is the pickling
\* error of the local _worker (lines 64-71)
PickleError ==
    /\ pc = "running"
    /\ PickleFails
    /\ files # <<>>
    /\ pc' = "raised"
    /\ raisedBy' = -1
    /\ UNCHANGED <<fs, dirs, files, fails, mergeError, stale, finder, entry, workers, nextTask, proc, outq,
                   out, events, done, master, prevName, prevRows, compiles>>

\* The caller interrupts the running batch (KeyboardInterrupt in the calling
\* process)
Interrupt ==
    /\ pc = "running"
    /\ pc' = "raised"
    /\ raisedBy' = -2
    /\ StopAll
    /\ UNCHANGED <<dirs, files, fails, mergeError, stale, finder, entry, workers, nextTask, outq, out,
                   events, done, master, prevName, prevRows, compiles>>

\* Every file's location has been collected: the list is returned
\* (lines 69, 71, 116, 124)
Return ==
    /\ pc = "running"
    /\ Len(out) = Len(files)
    /\ pc' = "returned"
    /\ UNCHANGED <<fs, dirs, files, fails, mergeError, stale, finder, entry, workers, nextTask, proc, outq,
                   out, events, done, raisedBy, master, prevName, prevRows,
                   compiles>>

Init ==
    /\ files \in DistinctSeqs(AudioFiles, MaxFiles)
    /\ fails \in SUBSET Range(files)
    /\ entry \in {"to_csv", "progress"}
    /\ workers \in 0..MaxWorkers
    /\ pc = "running"
    /\ nextTask = 1
    /\ proc = [w \in Procs |-> Idle]
    /\ outq = <<>>
    /\ out = <<>>
    /\ events = <<>>
    /\ done = {}
    /\ raisedBy = 0
    /\ stale \in BOOLEAN
    /\ fs = [p \in AllPaths |-> IF stale /\ p = PathA THEN StaleOutput ELSE NoFile]
    /\ dirs = IF stale THEN {PathA[1]} ELSE {}
    /\ master = <<>>
    /\ prevName = <<>>
    /\ prevRows = <<>>
    /\ compiles = 0
    /\ mergeError = FALSE
    /\ finder = NoSearch

\* The merge pass that follows a batch
CompileAfterRun ==
    /\ pc \in {"returned", "raised"}
    /\ compiles = 0
    /\ \E m \in MasterNames : Compile(m)

Next ==
    \/ \E w \in Procs : Start(w)
    \/ \E w \in Procs : DetectorReturns(w)
    \/ DetectorRaisesSerial
    \/ \E w \in Procs : DetectorRaisesPool(w)
    \/ WriteSerial
    \/ \E w \in Procs : WritePool(w)
    \/ ReceiveResult
    \/ ReceiveError
    \/ PickleError
    \/ Interrupt
    \/ Return
    \/ CompileAfterRun

Spec == Init /\ [][Next]_vars

----------------------------------------------------------------------------
(* The merge model: compile over any per-file outputs *)

HeaderUpper == [CSV_HEADER EXCEPT ![1] = <<"F","i","l","e">>]
HeaderPadded == [CSV_HEADER EXCEPT ![2] = <<" ">> \o CSV_HEADER[2] \o <<"\t">>]
HeaderShort == SubSeq(CSV_HEADER, 1, 4)
RowA == << <<"a",".","w","a","v">>, <<"0">>, <<"3">>, <<"S","f">>, <<"0",".","5","0","0">> >>
RowB == << <<"b",".","w","a","v">>, <<"3">>, <<"6">>, <<"f","\r","s">>, <<"1",".","0","0","0">> >>
EmptyRow == <<>>

RowPool == {CSV_HEADER, HeaderUpper, HeaderPadded, HeaderShort, RowA, RowB, EmptyRow}

\* What the second per-file output can be: missing, empty, as written by
\* analyze_one_to_csv, or without its header
SecondOutputs ==
    {NoFile, File(<<>>), File(<<CSV_HEADER, RowB>>), File(<<RowB>>)}

RowSeqs(pool, n) == UNION {[1..k -> pool] : k \in 0..n}

InitMerge ==
    /\ \E ca \in {NoFile, Unreadable} \cup {File(r) : r \in RowSeqs(RowPool, MaxRows)},
          cb \in SecondOutputs \cup {Unreadable},
          pb \in {PathB, PathBm} :
          fs = [p \in AllPaths |->
                  CASE p = PathA -> ca
                    [] p = pb -> cb
                    [] OTHER -> NoFile]
    /\ dirs = {"A", "B"}
    /\ files = <<>>
    /\ fails = {}
    /\ entry = "none"
    /\ workers = 1
    /\ pc = "merge"
    /\ nextTask = 1
    /\ proc = <<>>
    /\ outq = <<>>
    /\ out = <<>>
    /\ events = <<>>
    /\ done = {}
    /\ raisedBy = 0
    /\ master = <<>>
    /\ prevName = <<>>
    /\ prevRows = <<>>
    /\ compiles = 0
    /\ mergeError = FALSE
    /\ stale = FALSE
    /\ finder = NoSearch

NextMerge == \E m \in MasterNames : Compile(m)

SpecMerge == InitMerge /\ [][NextMerge]_vars

----------------------------------------------------------------------------
(* The discovery model: find_audio_files over any tree and pattern *)

InitFind ==
    /\ \E t \in Trees, there \in BOOLEAN, pattern \in Patterns :
          /\ ~there => t = {}
          /\ finder = Search(t, there, pattern)
    /\ fs = [p \in AllPaths |-> NoFile]
    /\ dirs = {}
    /\ files = <<>>
    /\ fails = {}
    /\ entry = "none"
    /\ workers = 1
    /\ pc = "find"
    /\ nextTask = 1
    /\ proc = <<>>
    /\ outq = <<>>
    /\ out = <<>>
    /\ events = <<>>
    /\ done = {}
    /\ raisedBy = 0
    /\ master = <<>>
    /\ prevName = <<>>
    /\ prevRows = <<>>
    /\ compiles = 0
    /\ mergeError = FALSE
    /\ stale = FALSE

NextFind == find_audio_files

SpecFind == InitFind /\ [][NextFind]_vars

----------------------------------------------------------------------------
(* Properties of the dispatcher, checked under Spec *)

Finished == pc \in {"returned", "raised"}

\* What the dispatcher call hands back: the list when it returns, nothing
\* when it raises
Returned == IF pc = "returned" THEN out ELSE <<>>

\* The files whose failure the raised exception carries
Reported == IF raisedBy > 0 THEN {raisedBy} ELSE {}

Failing == {i \in 1..Len(files) : files[i] \in fails}

\* A batch whose tasks reached the processes and that nobody interrupted
Undisturbed == raisedBy \notin {-1, -2}

\* C1: when the Detector raises for some files, the batch still processes
\* every other file, whose output exists and whose location is returned, and
\* the failure raised at the end names exactly the failing files.
C1_FailureDoesNotHaltBatch ==
    (Finished /\ Failing # {} /\ Undisturbed) =>
        /\ \A i \in 1..Len(files) :
              i \notin Failing =>
                  /\ i \in done
                  /\ fs[OutCsv(files[i])].exists
                  /\ OutCsv(files[i]) \in Range(Returned)
        /\ Reported = Failing

\* C2: in parallel mode, when the dispatcher finishes, every file handed to
\* a worker is either completed (output written, location returned) or
\* reported failed.
C2_AllCompletedOrReported ==
    (workers > 1 /\ Finished /\ Undisturbed) =>
        \A i \in 1..(nextTask - 1) :
            \/ i \in done /\ OutCsv(files[i]) \in Range(Returned)
            \/ i \in Reported

\* C3: the file-to-output mapping is injective, so no two workers have the
\* same output location open for writing.
C3_NoSharedOutputLocation ==
    \A v, w \in Procs :
        (v # w /\ proc[v].phase = "opened" /\ proc[w].phase = "opened")
            => OutCsv(CurrentFile(v)) # OutCsv(CurrentFile(w))

\* C4: with workers <= 1 the files are processed one at a time in input
\* order (every file before a started one is already analyzed and written),
\* and the i-th location of the result is the output of the i-th file; the
\* returned list covers every file.
C4_SequentialInInputOrder ==
    workers <= 1 =>
        /\ \A j \in 1..(nextTask - 1) : \A i \in 1..(j - 1) :
              i \in done /\ fs[OutCsv(files[i])].exists
        /\ Len(out) = Cardinality(done)
        /\ \A i \in 1..Len(out) : out[i] = OutCsv(files[i])
        /\ pc = "returned" => Len(out) = Len(files)

C4_Witness ==
    /\ workers <= 1
    /\ pc = "returned"
    /\ Len(files) >= 2
    /\ OutCsv(files[1]) # OutCsv(files[2])
    /\ out = <<OutCsv(files[1]), OutCsv(files[2])>>

\* C5: with a progress sink, a finished batch has shown one event per file,
\* failed files included, with the counts 1, 2, ..., N.
C5_OneEventPerFile ==
    (entry = "progress" /\ Finished /\ Undisturbed) =>
        events = [i \in 1..Len(files) |-> i]

\* C6: after the caller cancels, no process was stopped in the middle of a
\* file (each in-flight file is finished and written completely), and the
\* outputs completed are returned.
C6_CancelLetsWorkersFinish ==
    (workers > 1 /\ raisedBy = -2) =>
        /\ \A w \in Procs : proc[w].phase # "stopped"
        /\ \A i \in done : OutCsv(files[i]) \in Range(Returned)

MasterFile == fs[MasterPath(master)].rows

RECURSIVE Sum(_, _)
Sum(f, n) == IF n = 0 THEN 0 ELSE f[n] + Sum(f, n - 1)

\* C7: for a batch whose detections all succeed (into an output directory
\* that was empty, and none of whose outputs is named like the master), after
\* the run and compile every file has its
\* own output holding the header and exactly its records, and the master has
\* one header row plus one row per detection of all files.
C7_EndToEnd ==
    (pc = "returned" /\ compiles = 1 /\ fails = {} /\ ~stale
       /\ \A i \in 1..Len(files) : OutCsv(files[i])[2] # master) =>
        /\ \A i \in 1..Len(files) :
              fs[OutCsv(files[i])] = File(PerFileRows(files[i]))
        /\ Len(MasterFile)
             = 1 + Sum([i \in 1..Len(files) |-> Len(Detections(files[i]))],
                       Len(files))

----------------------------------------------------------------------------
(* Properties of the merge compiler, checked under SpecMerge *)

\* The per-file outputs under the root in discovery order: every .csv file
\* not named like the master of the last compile.  That call changed only its
\* own master file, so these are the outputs it had to read.
Csvs ==
    SelectSeq(PathOrder,
              LAMBDA p : fs[p].exists /\ MatchesCsv(p[2]) /\ p[2] # master)

ReadRows(p) == csv_reader(fs[p].rows)

NonEmpty(rows) == SelectSeq(rows, LAMBDA row : row # <<>>)

\* The rows of one per-file output that belong in the master when Drop says
\* which first rows are header rows
KeptBy(Drop(_), rows) ==
    IF rows = <<>> THEN <<>>
    ELSE (IF Drop(rows[1]) THEN <<>> ELSE <<rows[1]>>) \o NonEmpty(Tail(rows))

\* Number of master rows before the rows of the k-th per-file output
OffsetBy(Drop(_), k) ==
    1 + Sum([q \in 1..(k - 1) |-> Len(KeptBy(Drop, ReadRows(Csvs[q])))], k - 1)

HeaderCount(rows) == Cardinality({i \in 1..Len(rows) : IsHeaderRow(rows[i])})

\* Header rows that per-file outputs hold after their first row
LaterHeaders ==
    Sum([q \in 1..Len(Csvs) |->
            Cardinality({i \in 2..Len(ReadRows(Csvs[q])) :
                            IsHeaderRow(ReadRows(Csvs[q])[i])})],
        Len(Csvs))

\* Every discovered per-file output can be read
AllReadable == \A k \in 1..Len(Csvs) : fs[Csvs[k]].readable

ExpectedTail ==
    Flatten([q \in 1..Len(Csvs) |-> KeptBy(IsHeaderRow, ReadRows(Csvs[q]))])

EqualsHeaderIgnoringCase(first) ==
    [i \in 1..Len(first) |-> lower(first[i])]
        = [i \in 1..Len(CSV_HEADER) |-> lower(CSV_HEADER[i])]

\* The first-row rule of the merge for a given test of header rows: the
\* master has no row for a dropped first row, and a kept first row stands
\* where the rows of its file begin
FirstRowRule(Drop(_)) ==
    /\ Len(MasterFile) = OffsetBy(Drop, Len(Csvs) + 1)
    /\ \A k \in 1..Len(Csvs) :
          LET rows == ReadRows(Csvs[k])
              at == OffsetBy(Drop, k) + 1
          IN  rows # <<>> =>
                /\ ~Drop(rows[1]) => MasterFile[at] = rows[1]
                /\ (Drop(rows[1]) /\ NonEmpty(Tail(rows)) # <<>>)
                      => MasterFile[at] = NonEmpty(Tail(rows))[1]

C10_CompileTwiceSameMaster ==
    (compiles >= 2 /\ prevName = master) => MasterFile = prevRows

C10_Witness ==
    /\ compiles >= 2
    /\ prevName = master
    /\ Len(MasterFile) >= 3
    /\ MasterFile = prevRows

\* The rows the master holds after its header when unreadable outputs are
\* passed over and every readable one contributes by the first-row rule
RowsOfReadable ==
    Flatten([q \in 1..Len(Csvs) |->
                IF fs[Csvs[q]].readable
                THEN KeptBy(IsHeaderRow, ReadRows(Csvs[q]))
                ELSE <<>>])

\* C11: a per-file output that cannot be read is skipped and never aborts
\* the merge: compile returns the master location, and the master holds the
\* rows of all readable per-file outputs.
C11_UnreadableOutputSkipped ==
    compiles >= 1 =>
        /\ ~mergeError
        /\ Tail(MasterFile) = RowsOfReadable

\* C13: the master written by compile contains no empty row, whatever the
\* per-file outputs hold; an empty first row of a per-file output is skipped
\* like any other empty row.
C13_NoEmptyRowInMaster ==
    compiles >= 1 =>
        \A i \in 1..Len(MasterFile) : MasterFile[i] # EmptyRow

\* The discovered outputs that analyze_one_to_csv writes: those in a folder
\* below the root, where no master file lies
PerFileCsvs == SelectSeq(Csvs, LAMBDA p : p[1] # "")

\* C14: after any sequence of compiles on one root, also with different
\* master names, the latest master holds after its header only the rows of
\* per-file outputs, each once: no row of an earlier master is read back in.
C14_NoEarlierMasterReadBack ==
    (compiles >= 1 /\ AllReadable) =>
        Tail(MasterFile)
          = Flatten([q \in 1..Len(PerFileCsvs) |->
                        KeptBy(IsHeaderRow, ReadRows(PerFileCsvs[q]))])

----------------------------------------------------------------------------
(* Properties of discovery, checked under SpecFind *)

\* The canonical paths of the audio files the traversal of the search roots
\* comes across, in the order in which it first comes across each
RECURSIVE FirstOccurrences(_, _)
FirstOccurrences(t, seq) ==
    IF seq = <<>> THEN <<>>
    ELSE LET before == FirstOccurrences(t, Front(seq))
         IN  IF \E i \in 1..Len(before) :
                    Canonical(t, before[i]) = Canonical(t, Last(seq))
             THEN before
             ELSE Append(before, Last(seq))

\* C12: for any tree and pattern the result of find_audio_files has no two
\* entries with the same canonical path, holds only files with an
\* allow-listed extension (case ignored), lists them in the order of their
\* first occurrence in the traversal of the search roots, and is empty for a
\* base that does not exist.
C12_NoDuplicateCanonicalPaths ==
    finder.called =>
        LET t == finder.tree
            res == finder.result
        IN  /\ \A i, j \in 1..Len(res) :
                  i # j => Canonical(t, res[i]) # Canonical(t, res[j])
            /\ \A i \in 1..Len(res) :
                  lower(suffix(Last(res[i]))) \in AUDIO_EXTS
            /\ finder.exists =>
                  res = FirstOccurrences(t, Candidates(t, finder.pattern))
            /\ ~finder.exists => res = <<>>

----------------------------------------------------------------------------
(* Properties of analyze_one_to_csv within a batch, checked under Spec *)

\* The files whose analyze_one_to_csv call has begun
Started == 1..(nextTask - 1)

\* What lay at a location before the batch
Before(p) == IF stale /\ p = PathA THEN StaleOutput ELSE NoFile

\* The locations some begun call writes to because its Detector returns
WrittenTo == {OutCsv(files[j]) : j \in {k \in Started : files[k] \notin fails}}

\* C16: a call whose Detector raises neither creates nor changes the output
\* at its location (an earlier run's output there stays as it was); all that
\* calls whose Detector raises do to the filesystem is create the folders of
\* their files.
C16_FailedCallLeavesOutput ==
    /\ \A i \in Started :
          (files[i] \in fails /\ OutCsv(files[i]) \notin WrittenTo)
              => fs[OutCsv(files[i])] = Before(OutCsv(files[i]))
    /\ (\A i \in Started : files[i] \in fails) =>
          /\ \A p \in AllPaths : p[1] # "" => fs[p] = Before(p)
          /\ dirs = {p[1] : p \in {q \in AllPaths : Before(q).exists}}
                      \cup {files[i].parent : i \in Started}

C16_Witness ==
    /\ pc = "raised"
    /\ raisedBy > 0
    /\ stale
    /\ \E i, j \in Started :
          /\ files[i] = FileA1 /\ FileA1 \in fails
          /\ files[j] = FileB /\ FileB \in fails
    /\ fs[PathA] = StaleOutput
    /\ ~fs[PathB].exists
    /\ "B" \in dirs

\* No two files of the batch share an output location
DistinctLocations ==
    \A i, j \in 1..Len(files) : i # j => OutCsv(files[i]) # OutCsv(files[j])

\* C15: when the dispatcher has returned or raised, every per-file output
\* present is complete (the header and all records of its file, or what an
\* earlier run left there), also when another file's failure ended the
\* parallel batch while workers were writing.
C15_OutputsCompleteAtEnd ==
    (Finished /\ Undisturbed /\ DistinctLocations) =>
        \A i \in 1..Len(files) :
            LET loc == OutCsv(files[i])
            IN  fs[loc].exists =>
                    fs[loc] \in {File(PerFileRows(files[i])), Before(loc)}

\* The locations of all files of the batch, in input order
Locations == [i \in 1..Len(files) |-> OutCsv(files[i])]

\* Two sequences hold the same elements the same number of times
SameMultiset(s, t) ==
    /\ Len(s) = Len(t)
    /\ \A x \in Range(s) \cup Range(t) :
          Cardinality({i \in 1..Len(s) : s[i] = x})
            = Cardinality({i \in 1..Len(t) : t[i] = x})

\* C17: the two entry points differ only in the progress they show.  For a
\* batch whose detections all succeed and that nobody interrupts,
\* analyze_batch_with_progress writes every output and returns the locations
\* (in input order when workers <= 1, in any order otherwise), so
\* analyze_batch_to_csv does the same for the same arguments.
C17_EntryPointsEquivalent ==
    (Finished /\ fails = {} /\ raisedBy # -2) =>
        /\ pc = "returned"
        /\ \A i \in 1..Len(files) : fs[OutCsv(files[i])].exists
        /\ IF workers <= 1 THEN out = Locations
                            ELSE SameMultiset(out, Locations)

====
